---- MODULE Spec2Model ----
(***************************************************************************)
(* QuickClinic back-end: the prescription controller, the doctor-profile   *)
(* controller and the authentication middleware, as request handlers over  *)
(* a document store.  A handler is cut into steps at the store writes it   *)
(* awaits; the synchronous code before a write and the queries that feed   *)
(* it belong to the same step.  Store queries complete; a query on a       *)
(* malformed id throws (CastError); a store write either succeeds, fails   *)
(* schema validation (ValidationError) or is rejected by the store.        *)
(***************************************************************************)
EXTENDS Integers, Sequences, FiniteSets, TLC

\* ------------------------------------------------------------------ bounds
MaxMeds == 2        \* longest medications list of a request
MaxRequests == 2    \* requests served in one behaviour

\* ---------------------------------------------------------------- universe
Procs == {"r1", "r2"}                 \* handler invocations in flight
None == "none"                        \* undefined / null / absent
BadId == "zz"                         \* a string that is no ObjectId
Users == {"u1", "u2"}                 \* doctors' user ids
ApptIds == {"a1", "a2", "a3"}         \* well-formed appointment ids
Clinics == {"c1", "c2"}               \* well-formed clinic ids

\* mongoose.Types.ObjectId.isValid
IsValidObjectId(id) == id \notin {None, BadId}

\* ---------------------------------------------------------------- requests
NullMed == [isNull |-> TRUE, name |-> FALSE, dosage |-> FALSE,
            frequency |-> FALSE, duration |-> FALSE]
AnyMed == [isNull : {FALSE}, name : BOOLEAN, dosage : BOOLEAN,
           frequency : BOOLEAN, duration : BOOLEAN]
Lacks(m) == Cardinality({f \in {"name", "dosage", "frequency", "duration"} : ~m[f]})
\* a medication entry: null, or an object that lacks none, one or all of
\* its four fields
Meds == {NullMed} \cup {m \in AnyMed : Lacks(m) \in {0, 1, 4}}
FullMed == [isNull |-> FALSE, name |-> TRUE, dosage |-> TRUE,
            frequency |-> TRUE, duration |-> TRUE]
EmptyMed == [isNull |-> FALSE, name |-> FALSE, dosage |-> FALSE,
             frequency |-> FALSE, duration |-> FALSE]

SeqsUpTo(S, n) == UNION {[1..k -> S] : k \in 0..n}

NoMedications == [given |-> FALSE, items |-> <<>>]
\* req.body.medications: absent, or a list
MedLists(S) == {NoMedications} \cup
               {[given |-> TRUE, items |-> l] : l \in SeqsUpTo(S, MaxMeds)}

NoBody == [given |-> FALSE, userId |-> None, specialization |-> None,
           qualifications |-> None, clinicId |-> None]
\* req.body of the doctor-profile handlers: absent, or an object whose keys
\* are the fields that are not None
Bodies == {NoBody} \cup [given : {TRUE}, userId : {None} \cup Users,
                          specialization : {None, "s1"},
                          qualifications : {None, "q1"},
                          clinicId : {None} \cup Clinics]
Files == {"none", "ok", "fails"}      \* req.file, and whether its upload works

NoHeader == [given |-> FALSE, words |-> <<>>]
Tokens == {"tok_u1", "tok_p1", "tok_ad1", "tok_ghost", "tok_expired", "tok_garbage"}
\* req.headers['authorization'], as the words a split(' ') yields
Headers == {NoHeader} \cup
           {[given |-> TRUE, words |-> w] :
              w \in {<<"">>, <<"Bearer">>, <<"Bearer", "">>}
                    \cup {<<"Bearer", t>> : t \in Tokens}}

NoReq == [handler |-> None, userId |-> None, appointmentId |-> None,
          medications |-> NoMedications, schemaOk |-> TRUE, body |-> NoBody,
          file |-> "none", clinicId |-> None, header |-> NoHeader]

\* --------------------------------------------------------------- responses
Resp(st, msg) == [status |-> st, message |-> msg, errors |-> <<>>,
                  fields |-> {}, suggestions |-> FALSE, count |-> 0,
                  docs |-> {}, next |-> FALSE, reqUser |-> None]
NoResp == Resp(0, None)

NoLocal == [appointment |-> None, patientId |-> None, docId |-> 0]

VARIABLES pc, req, loc, res, appointments, prescriptions, doctors, nextId, started
vars == <<pc, req, loc, res, appointments, prescriptions, doctors, nextId, started>>

\* ------------------------------------------------------------------- store
NoAppointment == [_id |-> None, doctorId |-> None, patientId |-> None,
                  prescriptionId |-> 0]

Init ==
    /\ pc = [p \in Procs |-> "idle"]
    /\ req = [p \in Procs |-> NoReq]
    /\ loc = [p \in Procs |-> NoLocal]
    /\ res = [p \in Procs |-> NoResp]
    /\ appointments = {[_id |-> "a1", doctorId |-> "u1", patientId |-> "p1",
                        prescriptionId |-> 0],
                       [_id |-> "a2", doctorId |-> "u2", patientId |-> "p1",
                        prescriptionId |-> 0]}
    /\ prescriptions = {}
    /\ doctors = {}
    /\ nextId = 1
    /\ started = 0

\* a handler's response ends its invocation
Respond(p, r) ==
    /\ res' = [res EXCEPT ![p] = r]
    /\ pc' = [pc EXCEPT ![p] = "done"]

\* the server takes a request
CanAccept(p) == pc[p] = "idle" /\ started < MaxRequests

Accept(p, r) ==
    /\ CanAccept(p)
    /\ started' = started + 1
    /\ req' = [req EXCEPT ![p] = r]

\* ------------------------------------------------------ createPrescription
\* a slip: the check covers the appointment id alone
RequiredMissingIdOnly(appointmentId, medications) ==
    appointmentId = None

\* !appointmentId || !medications || medications.length === 0
RequiredMissing(appointmentId, medications) ==
    \/ appointmentId = None
    \/ ~medications.given
    \/ Len(medications.items) = 0

RequiredErrors(appointmentId, medications) ==
    (IF appointmentId = None THEN {"appointmentId"} ELSE {})
    \cup (IF ~medications.given \/ Len(medications.items) = 0
          THEN {"medications"} ELSE {})

\* a slip: the query leaves out the doctorId
FindAppointmentAnyDoctor(appts, appointmentId, userId) ==
    LET hit == {a \in appts : a._id = appointmentId}
    IN IF hit = {} THEN NoAppointment ELSE CHOOSE a \in hit : TRUE

\* Appointment.findOne({ _id: appointmentId, doctorId: userId })
FindAppointment(appts, appointmentId, userId) ==
    LET hit == {a \in appts : a._id = appointmentId /\ a.doctorId = userId}
    IN IF hit = {} THEN NoAppointment ELSE CHOOSE a \in hit : TRUE

MedIncomplete(med) ==
    ~med.name \/ ~med.dosage \/ ~med.frequency \/ ~med.duration

\* the forEach of lines 35-39: the 1-based positions it pushes a message for
RECURSIVE MedicationErrorsUpTo(_, _)
MedicationErrorsUpTo(items, n) ==
    IF n = 0 THEN <<>>
    ELSE LET before == MedicationErrorsUpTo(items, n - 1)
         IN IF MedIncomplete(items[n]) THEN Append(before, n) ELSE before

\* a slip: the validation stops at the first offending entry
MedicationErrorsFailFast(items) ==
    LET all == MedicationErrorsUpTo(items, Len(items))
    IN IF all = <<>> THEN <<>> ELSE <<all[1]>>

MedicationErrors(items) == MedicationErrorsUpTo(items, Len(items))

\* reading a property of a null entry throws a TypeError
MedThrows(items) == \E i \in 1..Len(items) : items[i].isNull

ServerError(msg) == Resp(500, msg)

CreatePrescription(p, userId, appointmentId, medications, schemaOk) ==
    /\ Accept(p, [NoReq EXCEPT !.handler = "createPrescription",
                               !.userId = userId,
                               !.appointmentId = appointmentId,
                               !.medications = medications,
                               !.schemaOk = schemaOk])
    /\ UNCHANGED <<appointments, prescriptions, doctors>>
    /\ IF RequiredMissing(appointmentId, medications)
       THEN /\ Respond(p, [Resp(400, "Appointment ID and medications are required")
                           EXCEPT !.fields = RequiredErrors(appointmentId, medications)])
            /\ UNCHANGED <<loc, nextId>>
       ELSE IF ~IsValidObjectId(appointmentId)
       THEN /\ Respond(p, ServerError("Failed to create prescription"))
            /\ UNCHANGED <<loc, nextId>>
       ELSE LET appointment == FindAppointment(appointments, appointmentId, userId)
            IN IF appointment = NoAppointment
               THEN /\ Respond(p, Resp(404, "Appointment not found or not authorized"))
                    /\ UNCHANGED <<loc, nextId>>
               ELSE IF MedThrows(medications.items)
               THEN /\ Respond(p, ServerError("Failed to create prescription"))
                    /\ UNCHANGED <<loc, nextId>>
               ELSE IF Len(MedicationErrors(medications.items)) > 0
               THEN /\ Respond(p, [Resp(400, "Medication validation failed")
                                   EXCEPT !.errors = MedicationErrors(medications.items)])
                    /\ UNCHANGED <<loc, nextId>>
               ELSE /\ loc' = [loc EXCEPT ![p] = [appointment |-> appointment._id,
                                                  patientId |-> appointment.patientId,
                                                  docId |-> nextId]]
                    /\ nextId' = nextId + 1
                    /\ pc' = [pc EXCEPT ![p] = "savePrescription"]
                    /\ UNCHANGED res

\* await prescription.save()
SavePrescription(p) ==
    /\ pc[p] = "savePrescription"
    /\ UNCHANGED <<req, loc, appointments, doctors, nextId, started>>
    /\ IF ~req[p].schemaOk
       THEN /\ Respond(p, Resp(400, "Validation error"))
            /\ UNCHANGED prescriptions
       ELSE /\ prescriptions' = prescriptions \cup
                   {[_id |-> loc[p].docId, appointmentId |-> req[p].appointmentId,
                     doctorId |-> req[p].userId, patientId |-> loc[p].patientId]}
            /\ pc' = [pc EXCEPT ![p] = "saveAppointment"]
            /\ UNCHANGED res

\* the store rejects prescription.save()
SavePrescriptionFails(p) ==
    /\ pc[p] = "savePrescription"
    /\ req[p].schemaOk
    /\ Respond(p, ServerError("Failed to create prescription"))
    /\ UNCHANGED <<req, loc, appointments, prescriptions, doctors, nextId, started>>

\* appointment.prescriptionId = prescription._id; await appointment.save()
SaveAppointment(p) ==
    /\ pc[p] = "saveAppointment"
    /\ appointments' = {IF a._id = loc[p].appointment
                        THEN [a EXCEPT !.prescriptionId = loc[p].docId]
                        ELSE a : a \in appointments}
    /\ pc' = [pc EXCEPT ![p] = "respondCreated"]
    /\ UNCHANGED <<req, loc, res, prescriptions, doctors, nextId, started>>

\* the store rejects appointment.save(): the prescription stays persisted
SaveAppointmentFails(p) ==
    /\ pc[p] = "saveAppointment"
    /\ Respond(p, ServerError("Failed to create prescription"))
    /\ UNCHANGED <<req, loc, appointments, prescriptions, doctors, nextId, started>>

\* res.status(201).json(...)
RespondCreated(p) ==
    /\ pc[p] = "respondCreated"
    /\ Respond(p, [Resp(201, "Prescription created successfully")
                   EXCEPT !.docs = {loc[p].docId}])
    /\ UNCHANGED <<req, loc, appointments, prescriptions, doctors, nextId, started>>

\* ----------------------------------------------------- createDoctorProfile
\* Doctor.findOne({ userId })
ExistingProfile(docs, userId) == {d \in docs : d.userId = userId}

\* a slip: the existence check is left out
AlreadyExistsUnchecked(docs, userId) == FALSE

\* existingProfile, as the if of line 181 reads it
AlreadyExists(docs, userId) == ExistingProfile(docs, userId) # {}

RequiredProfileMissing(body) ==
    body.specialization = None \/ body.qualifications = None

RequiredProfileErrors(body) ==
    (IF body.specialization = None THEN {"specialization"} ELSE {})
    \cup (IF body.qualifications = None THEN {"qualifications"} ELSE {})

\* new Doctor({ userId, ...doctorData }): a userId key of the body, spread
\* after it, overrides the caller's
NewDoctor(id, userId, body, file) ==
    [_id |-> id,
     userId |-> IF body.userId = None THEN userId ELSE body.userId,
     specialization |-> body.specialization,
     qualifications |-> body.qualifications,
     clinicId |-> body.clinicId,
     profilePicture |-> (file = "ok")]

CreateDoctorProfile(p, userId, body, file, schemaOk) ==
    /\ Accept(p, [NoReq EXCEPT !.handler = "createDoctorProfile",
                               !.userId = userId, !.body = body,
                               !.file = file, !.schemaOk = schemaOk])
    /\ UNCHANGED <<appointments, prescriptions, doctors>>
    /\ IF ~IsValidObjectId(userId)
       THEN /\ Respond(p, Resp(400, "Invalid user ID format"))
            /\ UNCHANGED <<loc, nextId>>
       ELSE IF AlreadyExists(doctors, userId)
       THEN /\ Respond(p, Resp(409, "Doctor profile already exists"))
            /\ UNCHANGED <<loc, nextId>>
       ELSE IF ~body.given
       THEN /\ Respond(p, ServerError("Failed to create doctor profile"))
            /\ UNCHANGED <<loc, nextId>>
       ELSE IF RequiredProfileMissing(body)
       THEN /\ Respond(p, [Resp(400, "Specialization and qualifications are required")
                           EXCEPT !.fields = RequiredProfileErrors(body)])
            /\ UNCHANGED <<loc, nextId>>
       ELSE IF file = "fails"
       THEN /\ Respond(p, ServerError("Failed to upload profile picture"))
            /\ UNCHANGED <<loc, nextId>>
       ELSE /\ loc' = [loc EXCEPT ![p] = [NoLocal EXCEPT !.docId = nextId]]
            /\ nextId' = nextId + 1
            /\ pc' = [pc EXCEPT ![p] = "saveDoctor"]
            /\ UNCHANGED res

\* await doctor.save(), then the 201
SaveDoctor(p) ==
    /\ pc[p] = "saveDoctor"
    /\ UNCHANGED <<req, loc, appointments, prescriptions, nextId, started>>
    /\ IF ~req[p].schemaOk
       THEN /\ Respond(p, Resp(400, "Validation error"))
            /\ UNCHANGED doctors
       ELSE /\ doctors' = doctors \cup
                   {NewDoctor(loc[p].docId, req[p].userId, req[p].body, req[p].file)}
            /\ Respond(p, [Resp(201, "Doctor profile created successfully")
                           EXCEPT !.docs = {loc[p].docId}])

\* the store rejects doctor.save()
SaveDoctorFails(p) ==
    /\ pc[p] = "saveDoctor"
    /\ req[p].schemaOk
    /\ Respond(p, ServerError("Failed to create doctor profile"))
    /\ UNCHANGED <<req, loc, appointments, prescriptions, doctors, nextId, started>>

\* ----------------------------------------------------- updateDoctorProfile
\* Object.keys(updates).length === 0
NoKeys(body) ==
    /\ body.userId = None
    /\ body.specialization = None
    /\ body.qualifications = None
    /\ body.clinicId = None

\* !updates || Object.keys(updates).length === 0 && !req.file
NoUpdates(body, file) == ~body.given \/ (NoKeys(body) /\ file = "none")

Merge(old, new) == IF new = None THEN old ELSE new

\* the document findOneAndUpdate leaves: the submitted keys overwrite
Updated(d, body, file) ==
    [_id |-> d._id,
     userId |-> Merge(d.userId, body.userId),
     specialization |-> Merge(d.specialization, body.specialization),
     qualifications |-> Merge(d.qualifications, body.qualifications),
     clinicId |-> Merge(d.clinicId, body.clinicId),
     profilePicture |-> (d.profilePicture \/ file = "ok")]

\* the first document a query matches
First(docs) == CHOOSE d \in docs : \A e \in docs : d._id <= e._id

UpdateDoctorProfile(p, userId, body, file, schemaOk, storeOk) ==
    /\ Accept(p, [NoReq EXCEPT !.handler = "updateDoctorProfile",
                               !.userId = userId, !.body = body,
                               !.file = file, !.schemaOk = schemaOk])
    /\ UNCHANGED <<loc, appointments, prescriptions, nextId>>
    /\ IF NoUpdates(body, file)
       THEN /\ Respond(p, Resp(400, "No updates provided"))
            /\ UNCHANGED doctors
       ELSE IF file = "fails"
       THEN /\ Respond(p, ServerError("Failed to upload profile picture"))
            /\ UNCHANGED doctors
       ELSE IF ~schemaOk
       THEN /\ Respond(p, Resp(400, "Validation error"))
            /\ UNCHANGED doctors
       ELSE IF ~storeOk
       THEN /\ Respond(p, ServerError("Failed to update doctor profile"))
            /\ UNCHANGED doctors
       ELSE IF ExistingProfile(doctors, userId) = {}
       THEN /\ Respond(p, Resp(404, "Doctor profile not found"))
            /\ UNCHANGED doctors
       ELSE LET d == First(ExistingProfile(doctors, userId))
            IN /\ doctors' = (doctors \ {d}) \cup {Updated(d, body, file)}
               /\ Respond(p, [Resp(200, "Doctor profile updated successfully")
                              EXCEPT !.docs = {d._id}])

\* ------------------------------------------------------ getDoctorsByClinic
\* Doctor.find({ clinicId })
FindByClinic(docs, clinicId) == {d \in docs : d.clinicId = clinicId}

\* a slip: the empty result is not checked
NoDoctorsUnchecked(found) == FALSE

\* !doctors || doctors.length === 0
NoDoctors(found) == Cardinality(found) = 0

GetDoctorsByClinic(p, clinicId) ==
    /\ Accept(p, [NoReq EXCEPT !.handler = "getDoctorsByClinic",
                               !.clinicId = clinicId])
    /\ UNCHANGED <<loc, appointments, prescriptions, doctors, nextId>>
    /\ IF ~IsValidObjectId(clinicId)
       THEN Respond(p, Resp(400, "Invalid clinic ID format"))
       ELSE LET found == FindByClinic(doctors, clinicId)
            IN IF NoDoctors(found)
               THEN Respond(p, [Resp(404, "No doctors found for this clinic")
                                EXCEPT !.suggestions = TRUE])
               ELSE Respond(p, [Resp(200, None)
                                EXCEPT !.count = Cardinality(found),
                                       !.docs = {d._id : d \in found}])

\* ------------------------------------------------------------ authenticate
\* authHeader?.split(' ')[1]
BearerToken(header) ==
    IF header.given /\ Len(header.words) >= 2 THEN header.words[2] ELSE None

\* !token: undefined or the empty string
NoToken(token) == token \in {None, ""}

\* verifyAccessToken(token): the decoded userId, or None when it throws
VerifyAccessToken(token) ==
    CASE token = "tok_u1" -> "u1"
      [] token = "tok_p1" -> "p1"
      [] token = "tok_ad1" -> "ad1"
      [] token = "tok_ghost" -> "ghost"
      [] OTHER -> None

\* the User collection: the role of each user record
UserRole == [u \in Users \cup {"p1", "ad1"} |->
               IF u \in Users THEN "doctor"
               ELSE IF u = "p1" THEN "patient" ELSE "admin"]
PatientProfiles == {"p1"}     \* users with a Patient profile
AdminProfiles == {}           \* users with an Admin profile

\* the switch of lines 24-34
HasProfile(docs, userId) ==
    CASE UserRole[userId] = "admin" -> userId \in AdminProfiles
      [] UserRole[userId] = "doctor" -> ExistingProfile(docs, userId) # {}
      [] UserRole[userId] = "patient" -> userId \in PatientProfiles
      [] OTHER -> FALSE

Authenticate(p, header) ==
    /\ Accept(p, [NoReq EXCEPT !.handler = "authenticate", !.header = header])
    /\ UNCHANGED <<loc, appointments, prescriptions, doctors, nextId>>
    /\ LET token == BearerToken(header)
           userId == VerifyAccessToken(token)
       IN IF NoToken(token)
          THEN Respond(p, Resp(401, "Authentication required"))
          ELSE IF userId = None
          THEN Respond(p, Resp(403, "Invalid or expired token"))
          ELSE IF userId \notin DOMAIN UserRole
          THEN Respond(p, Resp(404, "User not found"))
          ELSE IF ~HasProfile(doctors, userId)
          THEN Respond(p, Resp(404, "Profile not found"))
          ELSE Respond(p, [Resp(0, None) EXCEPT !.next = TRUE,
                                                !.reqUser = userId])

\* ------------------------------------------------------------------ system
\* the response is sent; the invocation is over
Finish(p) ==
    /\ pc[p] = "done"
    /\ pc' = [pc EXCEPT ![p] = "idle"]
    /\ req' = [req EXCEPT ![p] = NoReq]
    /\ loc' = [loc EXCEPT ![p] = NoLocal]
    /\ res' = [res EXCEPT ![p] = NoResp]
    /\ UNCHANGED <<appointments, prescriptions, doctors, nextId, started>>

\* the requests a client may send
AllRequests == [appts |-> ApptIds \cup {None, BadId},
                meds |-> MedLists(Meds),
                bodies |-> Bodies,
                files |-> Files,
                flags |-> BOOLEAN,
                clinics |-> Clinics \cup {BadId},
                headers |-> Headers]

\* the requests kept when invocations overlap
FewRequests == [appts |-> {"a1", "a2"},
                meds |-> {[given |-> TRUE, items |-> <<FullMed>>],
                          [given |-> TRUE, items |-> <<EmptyMed>>]},
                bodies |-> {b \in Bodies : b.given /\ b.userId = None
                                           /\ b.specialization = "s1"
                                           /\ b.qualifications = "q1"
                                           /\ b.clinicId # "c2"},
                files |-> {"none", "ok"},
                flags |-> BOOLEAN,
                clinics |-> {"c1"},
                headers |-> {NoHeader, [given |-> TRUE,
                                        words |-> <<"Bearer", "tok_u1">>]}]

Step(p, D) ==
    \/ /\ CanAccept(p)
       /\ \E u \in Users, a \in D.appts, m \in D.meds, ok \in D.flags :
              CreatePrescription(p, u, a, m, ok)
    \/ SavePrescription(p)
    \/ SavePrescriptionFails(p)
    \/ SaveAppointment(p)
    \/ SaveAppointmentFails(p)
    \/ RespondCreated(p)
    \/ /\ CanAccept(p)
       /\ \E u \in Users, b \in D.bodies, f \in D.files, ok \in D.flags :
              CreateDoctorProfile(p, u, b, f, ok)
    \/ SaveDoctor(p)
    \/ SaveDoctorFails(p)
    \/ /\ CanAccept(p)
       /\ \E u \in Users, b \in D.bodies, f \in D.files, ok \in D.flags,
             st \in D.flags :
              UpdateDoctorProfile(p, u, b, f, ok, st)
    \/ /\ CanAccept(p)
       /\ \E c \in D.clinics : GetDoctorsByClinic(p, c)
    \/ /\ CanAccept(p)
       /\ \E h \in D.headers : Authenticate(p, h)
    \/ Finish(p)

\* one request, one handler invocation at a time
Next == Step("r1", AllRequests)

Spec == Init /\ [][Next]_vars

\* invocations of different requests overlap
OverlapNext == \E p \in Procs : Step(p, FewRequests)

OverlapSpec == Init /\ [][OverlapNext]_vars

\* ------------------------------------------------------------------ claims
Done(p, h) == pc[p] = "done" /\ req[p].handler = h

\* the step is one of invocation p
StepOf(p) == pc'[p] # pc[p]

\* the request invocation p serves during the step
Cur(p) == IF pc[p] = "idle" THEN req'[p] ELSE req[p]

\* some Appointment has _id = appointmentId and doctorId = userId
Owned(r) ==
    \E a \in appointments : a._id = r.appointmentId /\ a.doctorId = r.userId

HasMedications(r) == r.medications.given /\ Len(r.medications.items) > 0

NothingPersisted ==
    /\ prescriptions' = prescriptions
    /\ appointments' = appointments
    /\ doctors' = doctors

Offending(items) ==
    {i \in 1..Len(items) :
        \E f \in {"name", "dosage", "frequency", "duration"} : ~items[i][f]}

\* one entry per offending position, in order
ListsExactly(errors, positions) ==
    /\ Len(errors) = Cardinality(positions)
    /\ {errors[i] : i \in 1..Len(errors)} = positions
    /\ \A i \in 1..Len(errors) - 1 : errors[i] < errors[i + 1]

NoNullEntry(items) == \A i \in 1..Len(items) : items[i] # NullMed

\* C3 as stated: on an owned appointment with a non-empty medications list
\* (of objects) the response is 400 exactly when a medication lacks a
\* required field, and then lists every offending position.
C3_AsStated ==
    \A p \in Procs :
        (/\ Done(p, "createPrescription")
         /\ Owned(req[p])
         /\ HasMedications(req[p])
         /\ NoNullEntry(req[p].medications.items))
            => /\ res[p].status = 400
                    <=> Offending(req[p].medications.items) # {}
               /\ res[p].status = 400
                    => ListsExactly(res[p].errors,
                                    Offending(req[p].medications.items))

\* C3, amended: on an owned appointment with a non-empty medications list of
\* objects, the response is the 400 "Medication validation failed" exactly
\* when a medication lacks name, dosage, frequency or duration, and its
\* errors array then holds one entry per offending medication, by 1-based
\* position; a list with a null entry is answered 500; no step of a request
\* with an offending or null entry persists a Prescription.  (A complete list
\* can still be answered 400 "Validation error" by the save.)
C3_MedicationErrors ==
    /\ [](\A p \in Procs :
            (/\ Done(p, "createPrescription")
             /\ Owned(req[p])
             /\ HasMedications(req[p]))
                => LET items == req[p].medications.items
                   IN IF ~NoNullEntry(items)
                      THEN res[p].status = 500
                      ELSE /\ (/\ res[p].status = 400
                               /\ res[p].message = "Medication validation failed")
                                  <=> Offending(items) # {}
                           /\ Offending(items) # {}
                                  => ListsExactly(res[p].errors, Offending(items)))
    /\ [][\A p \in Procs :
            (/\ StepOf(p)
             /\ Cur(p).handler = "createPrescription"
             /\ Offending(Cur(p).medications.items) # {})
                => prescriptions' = prescriptions]_vars

\* two offending medications around a complete one were both reported
C3_Witness ==
    \E p \in Procs :
        /\ Done(p, "createPrescription")
        /\ Owned(req[p])
        /\ Len(req[p].medications.items) >= 2
        /\ Cardinality(Offending(req[p].medications.items)) >= 2
        /\ res[p].status = 400
        /\ Len(res[p].errors) >= 2

\* C4: a createDoctorProfile request of a user who has a Doctor profile is
\* answered 409 and leaves the profiles as they are, whatever its body and
\* file.
C4_SecondProfile ==
    [][\A p \in Procs :
        (/\ pc[p] = "idle"
         /\ req'[p].handler = "createDoctorProfile"
         /\ \E d \in doctors : d.userId = req'[p].userId)
            => /\ pc'[p] = "done"
               /\ res'[p] = Resp(409, "Doctor profile already exists")
               /\ doctors' = doctors]_vars

\* a user with a profile sent a complete body and a file, and got 409
C4_Witness ==
    \E p \in Procs :
        /\ Done(p, "createDoctorProfile")
        /\ res[p].status = 409
        /\ req[p].body.specialization # None
        /\ req[p].body.qualifications # None
        /\ req[p].file = "ok"
        /\ \E d \in doctors : d.userId = req[p].userId

\* C5: at most one Doctor profile exists per userId, in every state that
\* createDoctorProfile and updateDoctorProfile requests reach, overlapping
\* or not.
C5_OneProfilePerUser ==
    \A u \in Users : Cardinality({d \in doctors : d.userId = u}) <= 1

\* C6: no two Prescriptions have the same appointmentId, and an
\* appointment's prescriptionId, once set, is never replaced.
C6_OnePrescriptionPerAppointment ==
    /\ [](\A x, y \in prescriptions :
            x.appointmentId = y.appointmentId => x = y)
    /\ [][\A a \in appointments :
            a.prescriptionId # 0 => a \in appointments']_vars

\* the missing, invalid and expired bearer tokens
BadBearer(header) ==
    \/ ~header.given
    \/ Len(header.words) < 2
    \/ header.words[2] \in {"", "tok_expired", "tok_garbage"}

\* C7: authenticate answers a missing, invalid or expired bearer token with
\* 401, without calling next and without setting req.user.
C7_Unauthenticated401 ==
    \A p \in Procs :
        (Done(p, "authenticate") /\ BadBearer(req[p].header))
            => /\ res[p].status = 401
               /\ ~res[p].next
               /\ res[p].reqUser = None

\* C8 as stated: getDoctorsByClinic answers 404 with a suggestion whenever no
\* Doctor has the requested clinicId, and a 200 response has count >= 1 and
\* a non-empty doctors list.
C8_AsStated ==
    \A p \in Procs :
        Done(p, "getDoctorsByClinic")
            => /\ (\A d \in doctors : d.clinicId # req[p].clinicId)
                    => res[p].status = 404 /\ res[p].suggestions
               /\ res[p].status = 200
                    => res[p].count >= 1 /\ res[p].docs # {}

\* C8, amended: getDoctorsByClinic answers a malformed clinicId with 400; for
\* a well-formed clinicId that no Doctor has, it answers 404 with the
\* suggestions field; a 200 response has count >= 1 and lists exactly the
\* doctors of that clinic, which are at least one.
C8_NoDoctors404 ==
    \A p \in Procs :
        Done(p, "getDoctorsByClinic")
            => /\ req[p].clinicId = BadId => res[p].status = 400
               /\ (/\ req[p].clinicId # BadId
                   /\ \A d \in doctors : d.clinicId # req[p].clinicId)
                    => res[p].status = 404 /\ res[p].suggestions
               /\ res[p].status = 200
                    => /\ res[p].count >= 1
                       /\ res[p].count = Cardinality(res[p].docs)
                       /\ res[p].docs =
                            {d._id : d \in {e \in doctors :
                                               e.clinicId = req[p].clinicId}}

\* doctors exist, none of them in the requested clinic, and the answer was 404
C8_Witness ==
    \E p \in Procs :
        /\ Done(p, "getDoctorsByClinic")
        /\ req[p].clinicId \in Clinics
        /\ doctors # {}
        /\ \A d \in doctors : d.clinicId # req[p].clinicId
        /\ res[p].status = 404
        /\ res[p].suggestions

\* C9: an updateDoctorProfile request with an empty body and no file is
\* answered 400 and leaves the profile as it is; one that carries a file is
\* not rejected as "No updates provided", whether its body is empty or
\* absent.
C9_NoUpdates ==
    [][\A p \in Procs :
        (pc[p] = "idle" /\ req'[p].handler = "updateDoctorProfile")
            => /\ (/\ req'[p].body.given
                   /\ req'[p].body = [NoBody EXCEPT !.given = TRUE]
                   /\ req'[p].file = "none")
                    => res'[p].status = 400 /\ doctors' = doctors
               /\ req'[p].file # "none"
                    => res'[p].message # "No updates provided"]_vars

\* no createPrescription invocation is between its two writes
NoneInFlight == \A p \in Procs : pc[p] \notin {"saveAppointment", "respondCreated"}

\* C10: when createPrescription answers 201, the Prescription is persisted
\* and the appointment's prescriptionId is its id; and every persisted
\* Prescription is the one its appointment's prescriptionId references, once
\* the invocation that wrote it is past its two writes.
C10_TwoStepWrite ==
    /\ \A p \in Procs :
            (Done(p, "createPrescription") /\ res[p].status = 201)
                => \E x \in prescriptions, a \in appointments :
                       /\ res[p].docs = {x._id}
                       /\ a._id = x.appointmentId
                       /\ a.prescriptionId = x._id
    /\ NoneInFlight
            => \A x \in prescriptions :
                   \E a \in appointments :
                       a._id = x.appointmentId /\ a.prescriptionId = x._id
====
